---- MODULE Spec2Model ----
(***************************************************************************)
(* NgbTooltip (src/tooltip/tooltip.ts): the open/close/toggle state of the *)
(* tooltip directive, its ARIA attribute, its positioning instance, its    *)
(* zone subscription and its lifecycle hooks.  The popup service, the      *)
(* transition runner, the trigger listener and the auto-close utility are  *)
(* collaborators of the directive that live in ../util.                    *)
(***************************************************************************)
EXTENDS Integers, Sequences, FiniteSets, TLC

\* Number of tooltip windows a behaviour may create.
MaxOpens == 2

Windows == 1..MaxOpens

\* DOM elements a position target can resolve to.
Elements == {"host", "other"}

\* `ngb-tooltip-${nextId++}` of this directive instance.
ngbTooltipWindowId == "ngb-tooltip-0"

\* Values the ngbTooltip input is set to: the empty string, a text (the field
\* is undefined until the input is first set).
Contents == {"", "tip"}

\* Values of the autoClose input (booleans written as strings).
AutoCloseValues == {"true", "false"}

\* Values of the positionTarget input: undefined, a selector or an element.
PositionTargets ==
    { [kind |-> "undefined", val |-> ""],
      [kind |-> "string", val |-> "#other"],
      [kind |-> "string", val |-> "#missing"],
      [kind |-> "element", val |-> "other"] }

VARIABLES
    \* inputs of the directive
    animation, autoClose, positionTarget, disableTooltip, ngbTooltip,
    \* private fields of the directive
    windowRef, unregisterListenersFn, positioning, zoneSubscription,
    \* outputs of the directive: number of emissions
    shown, hidden,
    \* popup service, transition runner, zone and DOM
    psWindowRef, running, pending, microtasks, zoneSubs, aria, autoCloseReg,
    \* lifecycle of the directive
    inited, destroyed, error,
    \* observations: calls made so far, the state `hidden` was emitted in,
    \* and the last step taken
    winCreated, winClosed, createPopperCalls, autoCloseCalls, unregisterCalls,
    hiddenSnap, targetChanged, last

lifeVars == <<unregisterListenersFn, inited, destroyed, error, unregisterCalls>>

\* Left alone by every step but an input change.
fixedVars == <<animation, autoClose, positionTarget, disableTooltip,
               targetChanged>>

vars == <<animation, autoClose, positionTarget, disableTooltip, ngbTooltip,
          windowRef, unregisterListenersFn, positioning, zoneSubscription,
          shown, hidden, psWindowRef, running, pending, microtasks, zoneSubs,
          aria, autoCloseReg, inited, destroyed, error, winCreated, winClosed,
          createPopperCalls, autoCloseCalls, unregisterCalls,
          hiddenSnap, targetChanged, last>>

\* The part of the state open() and close() and their callbacks work on.
Cur ==
    [ windowRef |-> windowRef, positioning |-> positioning,
      zoneSubscription |-> zoneSubscription, shown |-> shown,
      hidden |-> hidden, psWindowRef |-> psWindowRef, running |-> running,
      pending |-> pending, microtasks |-> microtasks, zoneSubs |-> zoneSubs,
      aria |-> aria, autoCloseReg |-> autoCloseReg,
      winCreated |-> winCreated, winClosed |-> winClosed,
      createPopperCalls |-> createPopperCalls,
      autoCloseCalls |-> autoCloseCalls,
      hiddenSnap |-> hiddenSnap,
      \* what the step does: the animation it closes the popup with, and
      \* whether it updates a destroyed positioning instance
      closeAnimation |-> "none", updateOnDestroyed |-> FALSE ]

Apply(s) ==
    /\ windowRef' = s.windowRef
    /\ positioning' = s.positioning
    /\ zoneSubscription' = s.zoneSubscription
    /\ shown' = s.shown
    /\ hidden' = s.hidden
    /\ psWindowRef' = s.psWindowRef
    /\ running' = s.running
    /\ pending' = s.pending
    /\ microtasks' = s.microtasks
    /\ zoneSubs' = s.zoneSubs
    /\ aria' = s.aria
    /\ autoCloseReg' = s.autoCloseReg
    /\ winCreated' = s.winCreated
    /\ winClosed' = s.winClosed
    /\ createPopperCalls' = s.createPopperCalls
    /\ autoCloseCalls' = s.autoCloseCalls
    /\ hiddenSnap' = s.hiddenSnap

-----------------------------------------------------------------------------
(* Helpers of the directive *)

\* JavaScript truthiness of a content value.
Falsy(v) == v \in {"undefined", "null", ""}

isString(p) == p.kind = "string"

\* document.querySelector: the element a selector matches, or null.
querySelector(sel) == IF sel = "#other" THEN "other" ELSE "null"

getPositionTargetElement ==
    LET t == IF isString(positionTarget)
             THEN querySelector(positionTarget.val)
             ELSE IF positionTarget.kind = "element" THEN positionTarget.val
                  ELSE "null"
    IN  IF t # "null" THEN t ELSE "host"

isOpen == windowRef # 0

-----------------------------------------------------------------------------
(* Collaborators: positioning, popup service, transitions, auto close *)

\* ngbPositioning().createPopper: creates the instance unless one exists.
createPopper(s) ==
    [s EXCEPT !.positioning = "active",
              !.createPopperCalls = @ + 1]

\* ngbPositioning().update, called on whatever instance there is.
positioningUpdate(s) ==
    [s EXCEPT !.updateOnDestroyed = @ \/ (s.positioning = "destroyed")]

\* ngbPositioning().destroy
positioningDestroy(s) ==
    [s EXCEPT !.positioning = IF @ = "active" THEN "destroyed" ELSE @]

\* PopupService.open: creates the window component unless it has one; the
\* returned transition$ is cold and starts on the next onStable.
popupOpen(s) ==
    IF s.psWindowRef = 0
    THEN [s EXCEPT !.psWindowRef = s.winCreated + 1,
                   !.winCreated = @ + 1]
    ELSE s

\* ngbRunTransition(element of window w, add 'show', runningTransition:
\* 'continue'): a running transition on the element wins; without animation
\* (or without a CSS transition) the result is emitted at once.
runOpenTransition(s, w, anim, css) ==
    IF s.running[w] # "none" THEN s
    ELSE IF ~anim \/ ~css
         THEN [s EXCEPT !.shown = [@ EXCEPT ![w] = @ + 1]]
         ELSE [s EXCEPT !.running = [@ EXCEPT ![w] = "open"]]

\* ngbAutoClose: registers the Escape and click listeners unless autoClose
\* is false; they live until `hidden` emits.
ngbAutoClose(s) ==
    [s EXCEPT !.autoCloseCalls = @ + 1,
              !.autoCloseReg = IF autoClose = "false" THEN @ ELSE autoClose]

-----------------------------------------------------------------------------
(* Methods of the directive *)

\* closeCallback emitting `hidden` first, before it clears the window
\* reference and destroys the positioning.
closeCallback_emitFirst(s) ==
    LET s0 == [s EXCEPT !.hidden = @ + 1,
                        !.hiddenSnap = [isOpen |-> s.windowRef # 0,
                                        positioning |-> s.positioning],
                        !.autoCloseReg = "none"]
        s1 == [s0 EXCEPT !.windowRef = 0]
        s2 == positioningDestroy(s1)
    IN  IF s2.zoneSubscription = "active"
        THEN [s2 EXCEPT !.zoneSubscription = "closed", !.zoneSubs = @ - 1]
        ELSE s2

\* closeCallback that leaves the window reference and the positioning alone.
closeCallback_keepsWindow(s) ==
    [s EXCEPT !.hidden = @ + 1,
              !.hiddenSnap = [isOpen |-> s.windowRef # 0,
                              positioning |-> s.positioning],
              !.autoCloseReg = "none"]

\* The callback close() subscribes to the popup service's close transition.
closeCallback(s) ==
    LET s1 == [s EXCEPT !.windowRef = 0]
        s2 == positioningDestroy(s1)
        s3 == IF s2.zoneSubscription = "active"
              THEN [s2 EXCEPT !.zoneSubscription = "closed",
                              !.zoneSubs = @ - 1]
              ELSE s2
    IN  [s3 EXCEPT !.hidden = @ + 1,
                   !.hiddenSnap = [isOpen |-> s3.windowRef # 0,
                                   positioning |-> s3.positioning],
                   !.autoCloseReg = "none"]

\* PopupService.close followed by the subscription of close(): the running
\* transition of the window is stopped; without animation (or without a CSS
\* transition) the window is removed and the callback runs at once.
popupClose(s, anim, css) ==
    LET w == s.psWindowRef
        s0 == [s EXCEPT !.closeAnimation = IF anim THEN "true" ELSE "false"]
    IN  IF w = 0 THEN closeCallback(s0)
        ELSE IF ~anim \/ ~css
             THEN closeCallback([s0 EXCEPT !.running = [@ EXCEPT ![w] = "none"],
                                           !.psWindowRef = 0,
                                           !.winClosed = @ + 1])
             ELSE [s0 EXCEPT !.running = [@ EXCEPT ![w] = "close"]]

\* open() without the check of the content.
open_noContentCheck(s) ==
    IF s.windowRef = 0 /\ ~disableTooltip
    THEN LET s1 == popupOpen(s)
             s2 == [s1 EXCEPT !.windowRef = s1.psWindowRef,
                              !.aria = [@ EXCEPT ![getPositionTargetElement] =
                                                      ngbTooltipWindowId]]
             s3 == [createPopper(s2) EXCEPT !.microtasks = @ + 1]
             s4 == ngbAutoClose(s3)
         IN  [s4 EXCEPT !.pending =
                  Append(@, [win |-> s4.windowRef, anim |-> animation])]
    ELSE s

\* open() without the check that no window exists.
open_noWindowCheck(s) ==
    IF ~Falsy(ngbTooltip) /\ ~disableTooltip
    THEN LET s1 == popupOpen(s)
             s2 == [s1 EXCEPT !.windowRef = s1.psWindowRef,
                              !.aria = [@ EXCEPT ![getPositionTargetElement] =
                                                      ngbTooltipWindowId]]
             s3 == [createPopper(s2) EXCEPT !.microtasks = @ + 1]
             s4 == ngbAutoClose(s3)
         IN  [s4 EXCEPT !.pending =
                  Append(@, [win |-> s4.windowRef, anim |-> animation])]
    ELSE s

\* open() registering the auto close whatever the autoClose input is.
open_autoCloseIgnored(s) ==
    IF s.windowRef = 0 /\ ~Falsy(ngbTooltip) /\ ~disableTooltip
    THEN LET s1 == popupOpen(s)
             s2 == [s1 EXCEPT !.windowRef = s1.psWindowRef,
                              !.aria = [@ EXCEPT ![getPositionTargetElement] =
                                                      ngbTooltipWindowId]]
             s3 == [createPopper(s2) EXCEPT !.microtasks = @ + 1]
             s4 == [s3 EXCEPT !.autoCloseCalls = @ + 1,
                              !.autoCloseReg = "true"]
         IN  [s4 EXCEPT !.pending =
                  Append(@, [win |-> s4.windowRef, anim |-> animation])]
    ELSE s

open(s) ==
    IF s.windowRef = 0 /\ ~Falsy(ngbTooltip) /\ ~disableTooltip
    THEN LET s1 == popupOpen(s)
             s2 == [s1 EXCEPT !.windowRef = s1.psWindowRef,
                              !.aria = [@ EXCEPT ![getPositionTargetElement] =
                                                      ngbTooltipWindowId]]
             s3 == [createPopper(s2) EXCEPT !.microtasks = @ + 1]
             s4 == ngbAutoClose(s3)
         IN  [s4 EXCEPT !.pending =
                  Append(@, [win |-> s4.windowRef, anim |-> animation])]
    ELSE s

\* close() clearing the window reference at once instead of in the callback.
close_eager(s, anim, css) ==
    IF s.windowRef # 0
    THEN [popupClose([s EXCEPT !.aria = [@ EXCEPT ![getPositionTargetElement] =
                                                       "none"]],
                     anim, css)
            EXCEPT !.windowRef = 0]
    ELSE s

\* close() that leaves the aria-describedby attribute in place.
close_keepsAria(s, anim, css) ==
    IF s.windowRef # 0 THEN popupClose(s, anim, css) ELSE s

close(s, anim, css) ==
    IF s.windowRef # 0
    THEN popupClose([s EXCEPT !.aria = [@ EXCEPT ![getPositionTargetElement] =
                                                      "none"]],
                    anim, css)
    ELSE s

\* toggle() taking a tooltip whose close transition runs for a closed one.
toggle_closingIsClosed(s, css) ==
    IF s.windowRef # 0 /\ s.running[s.windowRef] # "close"
    THEN close(s, animation, css)
    ELSE open(s)

toggle(s, css) ==
    IF s.windowRef # 0 THEN close(s, animation, css) ELSE open(s)

\* The ngbTooltip setter; the field itself is assigned by the action.
\* The ngbTooltip setter closing the tooltip whatever the value is.
ngbTooltipSetter_alwaysCloses(s, value, css) ==
    IF s.windowRef # 0 THEN close(s, animation, css) ELSE s

ngbTooltipSetter(s, value, css) ==
    IF Falsy(value) /\ s.windowRef # 0 THEN close(s, animation, css) ELSE s

\* The microtask open() schedules with Promise.resolve().then(...).
openMicrotask(s) ==
    LET s1 == positioningUpdate(s)
    IN  [s1 EXCEPT !.zoneSubscription = "active",
                   !.zoneSubs = @ + 1,
                   !.microtasks = @ - 1]

\* ngOnDestroy closing with the animation input.
ngOnDestroy_animated(s, css) == close(s, animation, css)

\* ngOnDestroy closes the tooltip without animation.
ngOnDestroy(s, css) == close(s, FALSE, css)

\* this._unregisterListenersFn() without the optional chaining.
callUnregister_plain(fn) ==
    [calls |-> IF fn = "fn" THEN 1 ELSE 0, error |-> fn = "undefined"]

\* this._unregisterListenersFn?.() : the number of calls made and whether
\* the call raised.
callUnregister(fn) ==
    [calls |-> IF fn = "fn" THEN 1 ELSE 0, error |-> FALSE]

-----------------------------------------------------------------------------
(* Zone and transitions *)

\* NgZone.onStable delivered to the transition$ subscriptions in q, in
\* order of subscription.
RECURSIVE stableAll(_, _, _)
stableAll(s, q, css) ==
    IF q = <<>> THEN s
    ELSE stableAll(runOpenTransition(s, Head(q).win, Head(q).anim, css),
                   Tail(q), css)

\* NgZone.onStable: starts the awaited opening transitions and runs the
\* positioning update of every zone subscription of the directive.
onStable(s, css) ==
    LET s1 == stableAll([s EXCEPT !.pending = <<>>], s.pending, css)
    IN  IF s1.zoneSubs > 0 THEN positioningUpdate(s1) ELSE s1

\* The running transition of window w ends: an opening transition emits to
\* open()'s subscriber, a closing one removes the window and emits to
\* close()'s subscriber.
transitionEnd(s, w) ==
    IF s.running[w] = "open"
    THEN [s EXCEPT !.running = [@ EXCEPT ![w] = "none"],
                   !.shown = [@ EXCEPT ![w] = @ + 1]]
    ELSE closeCallback([s EXCEPT !.running = [@ EXCEPT ![w] = "none"],
                                 !.psWindowRef = 0,
                                 !.winClosed = @ + 1])

\* Whether the auto-close utility registered with `type` closes on event ev.
shouldClose(type, ev) ==
    \/ ev = "escape"
    \/ ev = "inside" /\ type = "inside"
    \/ ev = "outside" /\ type \in {"outside", "true"}

\* Trigger listeners are attached from ngOnInit until they are unregistered.
listening == unregisterListenersFn = "fn" /\ unregisterCalls = 0

-----------------------------------------------------------------------------
(* Actions *)

Init ==
    /\ animation \in BOOLEAN
    /\ autoClose = "true"
    /\ positionTarget = [kind |-> "undefined", val |-> ""]
    /\ disableTooltip = FALSE
    /\ ngbTooltip = "undefined"
    /\ windowRef = 0
    /\ unregisterListenersFn = "undefined"
    /\ positioning = "none"
    /\ zoneSubscription = "undefined"
    /\ shown = [w \in Windows |-> 0]
    /\ hidden = 0
    /\ psWindowRef = 0
    /\ running = [w \in Windows |-> "none"]
    /\ pending = <<>>
    /\ microtasks = 0
    /\ zoneSubs = 0
    /\ aria = [e \in Elements |-> "none"]
    /\ autoCloseReg = "none"
    /\ inited = FALSE
    /\ destroyed = FALSE
    /\ error = FALSE
    /\ winCreated = 0
    /\ winClosed = 0
    /\ createPopperCalls = 0
    /\ autoCloseCalls = 0
    /\ unregisterCalls = 0
    /\ hiddenSnap = [isOpen |-> FALSE, positioning |-> "none"]
    /\ targetChanged = FALSE
    /\ last = [op |-> "init", wasOpen |-> FALSE, wasClosing |-> FALSE,
               closeAnimation |-> "none", updateOnDestroyed |-> FALSE]

\* What the step that runs `op` records about the state it started in.
Record(op, s) ==
    last' = [op |-> op, wasOpen |-> windowRef # 0,
             wasClosing |-> windowRef # 0 /\ running[windowRef] = "close",
             closeAnimation |-> s.closeAnimation,
             updateOnDestroyed |-> s.updateOnDestroyed]

Do(op, s) == Apply(s) /\ Record(op, s)

\* A step is taken only while it keeps the number of windows in the bound.
Bounded(s) == s.winCreated <= MaxOpens

Open ==
    /\ ~destroyed /\ Bounded(open(Cur))
    /\ Do("open", open(Cur))
    /\ UNCHANGED <<fixedVars, ngbTooltip, lifeVars>>

Close ==
    /\ ~destroyed
    /\ \E anim \in BOOLEAN, css \in BOOLEAN : Do("close", close(Cur, anim, css))
    /\ UNCHANGED <<fixedVars, ngbTooltip, lifeVars>>

Toggle ==
    /\ ~destroyed
    /\ \E css \in BOOLEAN :
          Bounded(toggle(Cur, css)) /\ Do("toggle", toggle(Cur, css))
    /\ UNCHANGED <<fixedVars, ngbTooltip, lifeVars>>

SetNgbTooltip ==
    /\ ~destroyed
    /\ \E value \in Contents \ {ngbTooltip}, css \in BOOLEAN :
          /\ ngbTooltip' = value
          /\ Do("ngbTooltip", ngbTooltipSetter(Cur, value, css))
    /\ UNCHANGED <<fixedVars, lifeVars>>

SetAnimation ==
    /\ ~destroyed
    /\ animation' = ~animation
    /\ UNCHANGED <<autoClose, positionTarget, disableTooltip, ngbTooltip,
                   targetChanged, lifeVars>>
    /\ Do("input", Cur)

SetAutoClose ==
    /\ ~destroyed
    /\ \E v \in AutoCloseValues \ {autoClose} : autoClose' = v
    /\ UNCHANGED <<animation, positionTarget, disableTooltip, ngbTooltip,
                   targetChanged, lifeVars>>
    /\ Do("input", Cur)

SetPositionTarget ==
    /\ ~destroyed
    /\ \E p \in PositionTargets \ {positionTarget} : positionTarget' = p
    /\ targetChanged' = (targetChanged \/ isOpen)
    /\ UNCHANGED <<animation, autoClose, disableTooltip, ngbTooltip, lifeVars>>
    /\ Do("input", Cur)

SetDisableTooltip ==
    /\ ~destroyed
    /\ disableTooltip' = ~disableTooltip
    /\ UNCHANGED <<animation, autoClose, positionTarget, ngbTooltip,
                   targetChanged, lifeVars>>
    /\ Do("input", Cur)

NgOnInit ==
    /\ ~destroyed /\ ~inited
    /\ inited' = TRUE
    /\ unregisterListenersFn' = "fn"
    /\ UNCHANGED <<fixedVars, ngbTooltip, destroyed, error, unregisterCalls>>
    /\ Do("ngOnInit", Cur)

NgOnDestroy ==
    /\ ~destroyed
    /\ destroyed' = TRUE
    /\ \E css \in BOOLEAN : Do("ngOnDestroy", ngOnDestroy(Cur, css))
    /\ LET r == callUnregister(unregisterListenersFn)
       IN  /\ unregisterCalls' = unregisterCalls + r.calls
           /\ error' = (error \/ r.error)
    /\ UNCHANGED <<fixedVars, ngbTooltip, unregisterListenersFn, inited>>

\* A trigger event (after its delay) calls open() on a closed tooltip or
\* close() on an open one.
TriggerOpen ==
    /\ listening /\ microtasks = 0 /\ ~isOpen /\ Bounded(open(Cur))
    /\ Do("triggerOpen", open(Cur))
    /\ UNCHANGED <<fixedVars, ngbTooltip, lifeVars>>

TriggerClose ==
    /\ listening /\ microtasks = 0 /\ isOpen
    /\ \E css \in BOOLEAN : Do("triggerClose", close(Cur, animation, css))
    /\ UNCHANGED <<fixedVars, ngbTooltip, lifeVars>>

\* An Escape press or a click reaches the auto-close listeners.
AutoClose ==
    /\ autoCloseReg # "none" /\ microtasks = 0
    /\ \E ev \in {"escape", "inside", "outside"}, css \in BOOLEAN :
          /\ shouldClose(autoCloseReg, ev)
          /\ Do("autoClose", close(Cur, animation, css))
    /\ UNCHANGED <<fixedVars, ngbTooltip, lifeVars>>

RunMicrotask ==
    /\ microtasks > 0
    /\ Do("microtask", openMicrotask(Cur))
    /\ UNCHANGED <<fixedVars, ngbTooltip, lifeVars>>

Stable ==
    /\ microtasks = 0
    /\ pending # <<>> \/ zoneSubs > 0
    /\ \E css \in BOOLEAN : Do("onStable", onStable(Cur, css))
    /\ UNCHANGED <<fixedVars, ngbTooltip, lifeVars>>

TransitionEnd ==
    /\ microtasks = 0
    /\ \E w \in Windows :
          /\ running[w] # "none"
          /\ Do("transitionEnd", transitionEnd(Cur, w))
    /\ UNCHANGED <<fixedVars, ngbTooltip, lifeVars>>

Next ==
    \/ Open
    \/ Close
    \/ Toggle
    \/ SetNgbTooltip
    \/ SetAnimation
    \/ SetAutoClose
    \/ SetPositionTarget
    \/ SetDisableTooltip
    \/ NgOnInit
    \/ NgOnDestroy
    \/ TriggerOpen
    \/ TriggerClose
    \/ AutoClose
    \/ RunMicrotask
    \/ Stable
    \/ TransitionEnd

Spec == Init /\ [][Next]_vars

-----------------------------------------------------------------------------
(* Properties *)

\* Steps that call open(): manually, through toggle(), or from a trigger.
OpenOps == {"open", "toggle", "triggerOpen"}

\* The step called PopupService.close: close() acted on an existing window.
CloseActed == last'.closeAnimation # "none"

\* The step created a window: its open() was successful.
OpenActed == winCreated' = winCreated + 1

\* C1: when the tooltip is closed and the content is falsy, a step that
\* calls open() creates no window, leaves isOpen() false, sets no
\* aria-describedby, and subscribes to no opening transition, so that no
\* `shown` can follow from it.
C1_FalsyContentNeverOpens ==
    [][ (last'.op \in OpenOps /\ ~isOpen /\ Falsy(ngbTooltip))
            => /\ ~isOpen'
               /\ winCreated' = winCreated
               /\ aria' = aria
               /\ pending' = pending
               /\ microtasks' = microtasks
               /\ shown' = shown ]_vars

C1_Witness ==
    /\ last.op = "triggerOpen" /\ ~last.wasOpen
    /\ ngbTooltip = "" /\ ~disableTooltip
    /\ ~isOpen

\* C2: whenever disableTooltip is true no tooltip window is displayed.
C2_DisabledImpliesClosed == disableTooltip => ~isOpen

\* C3 as claimed: isOpen() turns false only in a step that completes a
\* close transition, never in the step that calls close().
C3_ClosesOnlyOnTransitionEnd ==
    [][ (isOpen /\ ~isOpen') => last'.op = "transitionEnd" ]_vars

\* C3 as amended: isOpen() is true exactly while the popup service holds a
\* window; it turns true in the step of a successful open(); it turns false
\* exactly in the step that completes the close transition (the window is
\* removed and `hidden` is emitted), which is the transition's end or, for a
\* close without animation, the close() call itself; a close() after which
\* isOpen() is still true has left the close transition running.
C3_IsOpenTracksWindow ==
    /\ [](windowRef = psWindowRef)
    /\ [][ /\ (~isOpen /\ isOpen') => (last'.op \in OpenOps /\ OpenActed)
           /\ OpenActed => isOpen'
           /\ (isOpen /\ ~isOpen')
                 => /\ winClosed' = winClosed + 1
                    /\ hidden' = hidden + 1
                    /\ running'[windowRef] = "none"
                    /\ \/ last'.op = "transitionEnd"
                       \/ CloseActed
           /\ (CloseActed /\ isOpen') => running'[windowRef'] = "close" ]_vars

C3_Witness ==
    /\ last.op = "close" /\ last.wasOpen /\ ~last.wasClosing
    /\ last.closeAnimation = "false"
    /\ ~isOpen

\* C4: a step that calls toggle() changes the state exactly as close() with
\* the animation input does when isOpen() is true, and exactly as open()
\* does when isOpen() is false; while a close transition runs isOpen() is
\* true, so toggle() closes again and creates no window.
C4_ToggleIsCloseOrOpen ==
    [][ last'.op = "toggle"
            => /\ \E css \in BOOLEAN :
                    LET s == IF isOpen THEN close(Cur, animation, css)
                             ELSE open(Cur)
                    IN  Apply(s) /\ last'.closeAnimation = s.closeAnimation
               /\ (isOpen /\ running[windowRef] = "close")
                     => (CloseActed /\ winCreated' = winCreated) ]_vars

C4_Witness ==
    /\ last.op = "toggle" /\ last.wasClosing
    /\ last.closeAnimation = "true"
    /\ isOpen /\ running[windowRef] = "close"

\* C5: `hidden` is emitted once per step, only in a step that completes a
\* close transition on an open tooltip (the transition's end, or a close
\* that completes at once); when it is emitted isOpen() is already false
\* and the positioning instance already destroyed; it is never emitted
\* more often than windows were opened.
C5_HiddenAfterClose ==
    /\ [](hidden <= winCreated)
    /\ [][ hidden' # hidden
              => /\ hidden' = hidden + 1
                 /\ isOpen /\ ~isOpen'
                 /\ winClosed' = winClosed + 1
                 /\ last'.op = "transitionEnd" \/ CloseActed
                 /\ hiddenSnap' = [isOpen |-> FALSE,
                                   positioning |-> "destroyed"] ]_vars

C5_Witness ==
    /\ last.op = "transitionEnd" /\ last.wasClosing
    /\ hidden = 1
    /\ hiddenSnap = [isOpen |-> FALSE, positioning |-> "destroyed"]

\* C6: `shown` is emitted at most once per window and only for a window an
\* open() created; it is emitted when the opening transition finishes (on
\* onStable or at the transition's end), and a call of open() that creates
\* no window subscribes to no transition and emits nothing.
C6_ShownOncePerOpen ==
    /\ [](\A w \in Windows : shown[w] <= 1 /\ (shown[w] > 0 => w <= winCreated))
    /\ [][ /\ shown' # shown => last'.op \in {"onStable", "transitionEnd"}
           /\ (last'.op \in OpenOps /\ ~OpenActed)
                 => (pending' = pending /\ shown' = shown)
           /\ OpenActed => Len(pending') = Len(pending) + 1 ]_vars

C6_Witness ==
    /\ last.op = "transitionEnd"
    /\ \E w \in Windows : shown[w] = 1 /\ windowRef = w

\* C7: the windows created exceed the windows removed by one while
\* isOpen() is true and by none otherwise, and createPopper and
\* ngbAutoClose are called once per window created, so that open() on an
\* existing window (also a closing one) calls neither again.
C7_SingleWindow ==
    /\ winCreated - winClosed = (IF isOpen THEN 1 ELSE 0)
    /\ createPopperCalls = winCreated
    /\ autoCloseCalls = winCreated

C7_Witness ==
    /\ last.op = "open" /\ last.wasClosing
    /\ isOpen /\ winCreated = 1 /\ createPopperCalls = 1

\* The steps that decide whether a close completes: every step but the
\* changes of the autoClose and positionTarget inputs, which keep the
\* values of the configuration.
LiveNext ==
    \/ Open
    \/ Close
    \/ Toggle
    \/ SetNgbTooltip
    \/ SetAnimation
    \/ SetDisableTooltip
    \/ NgOnInit
    \/ NgOnDestroy
    \/ TriggerOpen
    \/ TriggerClose
    \/ AutoClose
    \/ RunMicrotask
    \/ Stable
    \/ TransitionEnd

\* The browser runs every queued microtask, and a running transition ends.
FairSpec ==
    Init /\ [][LiveNext]_vars /\ WF_vars(RunMicrotask) /\ WF_vars(TransitionEnd)

\* Steps that call close() with or without an argument, and ngOnDestroy.
CloseOps == {"close", "toggle", "triggerClose", "autoClose", "ngbTooltip",
             "ngOnDestroy"}

\* C8: after every step that called close() or ngOnDestroy() on an open
\* tooltip, a state follows in which isOpen() is false, the positioning
\* instance is destroyed and `hidden` has been emitted for every window
\* created.
C8_ClosedEventually ==
    (last.op \in CloseOps /\ last.wasOpen /\ last.closeAnimation # "none")
        ~> (~isOpen /\ positioning = "destroyed" /\ hidden = winCreated)

C8_Witness ==
    /\ last.op = "transitionEnd" /\ last.wasClosing
    /\ ~isOpen /\ positioning = "destroyed" /\ hidden = winCreated
    /\ winCreated = MaxOpens

\* C9: a successful open() sets aria-describedby of the position target to
\* the window id; a close() that acts on an existing window removes it in
\* the same step, also when the tooltip is then still open; while the
\* tooltip is closed and positionTarget was never changed on an open
\* tooltip, no element carries the attribute.
C9_AriaDescribedBy ==
    /\ []((~isOpen /\ ~targetChanged) => \A e \in Elements : aria[e] = "none")
    /\ [][ /\ OpenActed
              => aria'[getPositionTargetElement] = ngbTooltipWindowId
           /\ CloseActed => aria'[getPositionTargetElement] = "none" ]_vars

C9_Witness ==
    /\ last.op = "close" /\ last.wasOpen /\ ~last.wasClosing
    /\ isOpen /\ running[windowRef] = "close"
    /\ positionTarget.kind = "element" /\ ~targetChanged
    /\ \A e \in Elements : aria[e] = "none"

\* C10: ngOnDestroy raises no error; it calls the unregister function once
\* when ngOnInit has run and not at all otherwise; it closes an open tooltip
\* with animation false whatever the animation input is.
C10_DestroySafe ==
    /\ [](~error)
    /\ [](unregisterCalls = (IF destroyed /\ inited THEN 1 ELSE 0))
    /\ [][ last'.op = "ngOnDestroy"
              => /\ unregisterCalls' =
                        unregisterCalls + (IF inited THEN 1 ELSE 0)
                 /\ isOpen => last'.closeAnimation = "false"
                 /\ ~isOpen' ]_vars

C10_Witness ==
    /\ last.op = "ngOnDestroy" /\ last.wasOpen
    /\ destroyed /\ ~inited /\ animation
    /\ unregisterCalls = 0 /\ ~isOpen

\* C11: the auto close is registered by a successful open() with the value
\* the autoClose input has then, and not at all when that value is false;
\* the registration stays as it is while the window exists, whatever the
\* input is changed to, and is gone when the tooltip is closed; an Escape
\* press or click calls close() only through a registration, so a tooltip
\* opened with autoClose false is closed only by close(), toggle(), a
\* trigger, the ngbTooltip setter or ngOnDestroy().
C11_AutoCloseFalse ==
    /\ [](~isOpen => autoCloseReg = "none")
    /\ [][ /\ OpenActed
              => autoCloseReg' =
                    (IF autoClose = "false" THEN "none" ELSE autoClose)
           /\ (isOpen /\ isOpen') => autoCloseReg' = autoCloseReg
           /\ last'.op = "autoClose" => autoCloseReg # "none"
           /\ (CloseActed /\ autoCloseReg = "none")
                 => last'.op \in {"close", "toggle", "triggerClose",
                                  "ngbTooltip", "ngOnDestroy"} ]_vars

C11_Witness ==
    /\ last.op = "input" /\ last.wasOpen
    /\ isOpen /\ autoCloseReg = "none" /\ autoClose = "true"

\* C12: a step that sets the ngbTooltip input stores the value; when the
\* value is falsy and a window exists it changes the state exactly as
\* close() with the animation input does, and otherwise it changes nothing
\* else: it neither opens nor closes the tooltip.
C12_SetterClosesOnFalsy ==
    [][ last'.op = "ngbTooltip"
            => /\ ngbTooltip' # ngbTooltip
               /\ \E css \in BOOLEAN :
                    LET s == IF Falsy(ngbTooltip') /\ isOpen
                             THEN close(Cur, animation, css)
                             ELSE Cur
                    IN  Apply(s) /\ last'.closeAnimation = s.closeAnimation
               /\ (~Falsy(ngbTooltip') \/ ~isOpen)
                     => (isOpen' = isOpen /\ ~CloseActed /\ ~OpenActed) ]_vars

C12_Witness ==
    /\ last.op = "ngbTooltip" /\ last.wasOpen /\ ~last.wasClosing
    /\ last.closeAnimation = "true"
    /\ ngbTooltip = "" /\ isOpen /\ running[windowRef] = "close"

\* No microtask is queued and no transition runs.
Quiescent == microtasks = 0 /\ \A w \in Windows : running[w] = "none"

\* C13: in every quiescent state in which isOpen() is false the directive
\* holds no active subscription to NgZone.onStable, and the step that led
\* there did not call positioning.update() on a destroyed instance.
C13_NoZoneSubscriptionLeft ==
    (Quiescent /\ ~isOpen) => (zoneSubs = 0 /\ ~last.updateOnDestroyed)

====
